---- MODULE Spec2Model ----
(***************************************************************************)
(* Model of train.py: the process-wide dataset caches and the data loader  *)
(* getters, the optimizer group builder, the plain training loop with its  *)
(* training step, and the hyperparameter search entry point.               *)
(***************************************************************************)
EXTENDS Integers, Sequences, FiniteSets, TLC

VARIABLES
    \* ---- module globals (train.py:20-21) and history of the getters
    train_dataset,   \* global train_dataset: None or a dataset instance
    eval_dataset,    \* global eval_dataset: None or a dataset instance
    created,         \* history: every CSVDatasetsMerger instance constructed
    loaders,         \* history: every DataLoader returned by a getter
    \* ---- normal_training
    config,          \* the configuration passed to normal_training
    env,             \* what the collaborators provide: dataset size, model architecture
    pc,              \* position of normal_training / training_step
    exp,             \* comet Experiment created (metric sink)
    model,           \* None or the model built by m.get_model
    model_mode,      \* "train" / "eval" (nn.Module.training)
    on_device,       \* model.to(device) has run
    optimizers,      \* sequence of optimizers returned by get_optimizers
    evaluator,       \* Evaluation object constructed
    error,           \* exception that left normal_training, or "none"
    epoch, idx, num_examples, batch_len,
    k,               \* position inside the list comprehensions over optimizers
    ops,             \* history: operations of the current training_step
    entry_mode,      \* history: model mode on entry to the current training_step
    train_log,       \* history: exp.log_metric('train_loss', ...) calls
    eval_log,        \* history: evaluator invocations
    last_update,     \* history: <<epoch, idx>> of the last finished training_step
    \* ---- loss inputs of training_step (train.py:138-141)
    T, B, labels, flat_outputs, rep_labels,
    \* ---- tune_training
    tcfg,            \* config['tune'] : tuning_method, resume, n_samples
    tpc,             \* position of tune_training
    ray_inited,      \* ray.init() has run
    bohb,            \* BOHB scheduler and search algorithm constructed
    algo,            \* None or the HyperOptSearch state (its trials)
    disk,            \* content of the hyperopt checkpoint directory
    disk0,           \* history: content of the checkpoint directory at start
    restore_status,  \* "none" / "ok" / "failed"
    run_launched,    \* tune.run has been called
    running,         \* the configuration of the trial in flight, if any
    sampled,         \* history: configurations sampled in this run
    completed,       \* number of completed trials
    saves,           \* number of algo.save calls
    terror           \* exception that left tune_training, or "none"

loaderVars == <<train_dataset, eval_dataset, created, loaders>>
trainVars  == <<config, env, pc, exp, model, model_mode, on_device, optimizers,
                evaluator, error, epoch, idx, num_examples, batch_len, k, ops, entry_mode,
                train_log, eval_log, last_update>>
stepVars   == <<T, B, labels, flat_outputs, rep_labels>>
tuneVars   == <<tcfg, tpc, ray_inited, bohb, algo, disk, disk0, restore_status,
                run_launched, running, sampled, completed, saves, terror>>
vars == <<loaderVars, trainVars, stepVars, tuneVars>>

None == "None"

\* Python None in the slots that hold a dataset, a model, an algorithm
NoDataset == [id |-> 0, paths |-> None]
NoModel == [built |-> FALSE, dense |-> {}, sparse |-> {}]
NoAlgo == [built |-> FALSE, trials |-> {}]

\* ------------------------------------------------------------------ bounds
MaxCalls   == 5     \* getter calls explored in one process
MaxEpochs  == 2     \* config['training']['training_epochs'] ranges over 1..MaxEpochs
MaxCadence == 2     \* log_every_n_batches, eval_every_n_batches range over 1..MaxCadence
NParams    == 2     \* number of model parameters
MaxT       == 3     \* output steps of the model
MaxB       == 3     \* examples in a batch of the loss-input check
NClasses   == 3     \* label classes
MaxSamples == 2     \* config['tune']['n_samples'] ranges over 1..MaxSamples
NConfigs   == 2     \* size of the sampled hyperparameter space

DatasetSizes == {1, 3, 5, 16}     \* number of examples of the train split
BatchSizes   == {1, 2, 8}         \* config['training']['train_batch_size']
PathSets     == {"pathsA", "pathsB"}   \* results of get_datasets_paths
OptimizerNames == {"adam", "sgd"}
TuningMethods  == {"bohb", "hyperopt", "no_search", "grid"}
Supported      == {"bohb", "hyperopt", "no_search"}
Params  == 1..NParams
Configs == 1..NConfigs

Min(a, b) == IF a < b THEN a ELSE b

\* ------------------------------------------------ dataset caches and getters
Globals == [train_dataset |-> train_dataset, eval_dataset |-> eval_dataset,
            created |-> created, loaders |-> loaders]

\* data.CSVDatasetsMerger(paths): a fresh instance on every construction
CSVDatasetsMerger(g, paths) == [id |-> Len(g.created) + 1, paths |-> paths]

\* DataLoader(dataset, ...): a fresh loader over the given dataset
DataLoader(split, dataset) == [split |-> split, dataset |-> dataset]

get_train_dataloader_nocache(g, paths) ==
    LET ds == CSVDatasetsMerger(g, paths)
    IN  [g EXCEPT !.train_dataset = ds,
                  !.created = Append(g.created, [split |-> "train", ds |-> ds]),
                  !.loaders = Append(g.loaders, DataLoader("train", ds))]

get_train_dataloader(g, paths) ==
    LET g1 == IF g.train_dataset = NoDataset
              THEN LET ds == CSVDatasetsMerger(g, paths)
                   IN  [g EXCEPT !.train_dataset = ds,
                                 !.created = Append(g.created, [split |-> "train", ds |-> ds])]
              ELSE g
    IN  [g1 EXCEPT !.loaders = Append(g1.loaders, DataLoader("train", g1.train_dataset))]

get_eval_dataloader(g, paths) ==
    LET g1 == IF g.eval_dataset = NoDataset
              THEN LET ds == CSVDatasetsMerger(g, paths)
                   IN  [g EXCEPT !.eval_dataset = ds,
                                 !.created = Append(g.created, [split |-> "eval", ds |-> ds])]
              ELSE g
    IN  [g1 EXCEPT !.loaders = Append(g1.loaders, DataLoader("eval", g1.eval_dataset))]

SetGlobals(g) ==
    /\ train_dataset' = g.train_dataset
    /\ eval_dataset' = g.eval_dataset
    /\ created' = g.created
    /\ loaders' = g.loaders

LoaderInit ==
    /\ train_dataset = NoDataset
    /\ eval_dataset = NoDataset
    /\ created = <<>>
    /\ loaders = <<>>

CallGetTrainDataloader ==
    /\ Len(loaders) < MaxCalls
    /\ \E paths \in PathSets : SetGlobals(get_train_dataloader(Globals, paths))

CallGetEvalDataloader ==
    /\ Len(loaders) < MaxCalls
    /\ \E paths \in PathSets : SetGlobals(get_eval_dataloader(Globals, paths))

\* ------------------------------------------------------ optimizer group
\* A model's parameters, split by the model into dense and sparse subsets
\* (model.get_non_sparse_parameters / model.get_sparse_parameters).
Models == {[built |-> TRUE, dense |-> d, sparse |-> Params \ d] : d \in SUBSET Params}

Adam(params) == [kind |-> "Adam", params |-> params]
SparseAdam(params) == [kind |-> "SparseAdam", params |-> params]

Returned(v) == [raised |-> "none", value |-> v]
Raised(e) == [raised |-> e, value |-> <<>>]

get_optimizers_dense_twice(m, cfg) ==
    IF cfg.optimizer_name = "adam"
    THEN IF m.dense = {}
         THEN Raised("ValueError")
         ELSE IF Cardinality(m.sparse) = 0
              THEN Returned(<<Adam(m.dense)>>)
              ELSE Returned(<<Adam(m.dense), SparseAdam(m.dense)>>)
    ELSE Raised("NotImplementedError")

\* optim.Adam is always constructed over the dense subset; torch's Optimizer
\* constructor raises ValueError on an empty parameter list.  SparseAdam is
\* constructed only when the sparse subset is non-empty.
get_optimizers(m, cfg) ==
    IF cfg.optimizer_name = "adam"
    THEN IF m.dense = {}
         THEN Raised("ValueError")
         ELSE IF Cardinality(m.sparse) = 0
              THEN Returned(<<Adam(m.dense)>>)
              ELSE Returned(<<Adam(m.dense), SparseAdam(m.sparse)>>)
    ELSE Raised("NotImplementedError")

\* ------------------------------------------------------ normal_training
\* DataLoader(batch_size=bs, drop_last=False) over n examples
NumBatches(n, bs) == (n + bs - 1) \div bs
BatchLen(n, bs, i) == Min(bs, n - i * bs)

ShouldLog_off_by_one(i, n) == (i + 1) % n = 0

ShouldLog(i, n) == i % n = 0

ShouldEval(i, n) == i % n = 0

TrainInit ==
    /\ config \in [training_epochs : 1..MaxEpochs,
                   train_batch_size : BatchSizes,
                   log_every_n_batches : 1..MaxCadence,
                   eval_every_n_batches : 1..MaxCadence,
                   optimizer_name : OptimizerNames,
                   paths : {"pathsA"}]
    /\ env \in [dataset_size : DatasetSizes, arch : Models]
    /\ pc = "setup"
    /\ exp = FALSE
    /\ model = NoModel
    /\ model_mode = None
    /\ on_device = FALSE
    /\ optimizers = <<>>
    /\ evaluator = FALSE
    /\ error = "none"
    /\ epoch = 0
    /\ idx = 0
    /\ num_examples = 0
    /\ batch_len = 0
    /\ k = 0
    /\ ops = <<>>
    /\ entry_mode = None
    /\ train_log = <<>>
    /\ eval_log = <<>>
    /\ last_update = <<>>

\* lines 105-107: device handle, then setup_training (lines 88-101): the
\* Experiment, both data loaders, the model, the loss function
SetupTraining ==
    /\ pc = "setup"
    /\ exp' = TRUE
    /\ SetGlobals(get_eval_dataloader(get_train_dataloader(Globals, config.paths),
                                      config.paths))
    /\ model' = env.arch
    /\ model_mode' = "train"
    /\ pc' = "to_device"
    /\ UNCHANGED <<config, env, entry_mode, on_device, optimizers, evaluator, error, epoch, idx,
                   num_examples, batch_len, k, ops, train_log, eval_log, last_update>>

\* lines 108-110: exp.set_name, model.train(), model.to(device)
ModelToDevice ==
    /\ pc = "to_device"
    /\ model_mode' = "train"
    /\ on_device' = TRUE
    /\ pc' = "get_optimizers"
    /\ UNCHANGED <<config, env, entry_mode, exp, model, optimizers, evaluator, error, epoch, idx,
                   num_examples, batch_len, k, ops, train_log, eval_log, last_update>>
    /\ UNCHANGED loaderVars

\* line 111
GetOptimizers ==
    /\ pc = "get_optimizers"
    /\ LET r == get_optimizers(model, config)
       IN  IF r.raised = "none"
           THEN /\ optimizers' = r.value
                /\ pc' = "evaluator"
                /\ error' = error
           ELSE /\ optimizers' = optimizers
                /\ pc' = "raised"
                /\ error' = r.raised
    /\ UNCHANGED <<config, env, entry_mode, exp, model, model_mode, on_device, evaluator, epoch, idx,
                   num_examples, batch_len, k, ops, train_log, eval_log, last_update>>
    /\ UNCHANGED loaderVars

\* lines 112-114
MakeEvaluator ==
    /\ pc = "evaluator"
    /\ evaluator' = TRUE
    /\ num_examples' = 0
    /\ epoch' = 0
    /\ pc' = "epoch_loop"
    /\ UNCHANGED <<config, env, entry_mode, exp, model, model_mode, on_device, optimizers, error, idx,
                   batch_len, k, ops, train_log, eval_log, last_update>>
    /\ UNCHANGED loaderVars

\* line 115: for epoch in range(training_epochs)
EpochLoop ==
    /\ pc = "epoch_loop"
    /\ IF epoch < config.training_epochs
       THEN /\ idx' = 0
            /\ pc' = "batch_loop"
       ELSE /\ idx' = idx
            /\ pc' = "done"
    /\ UNCHANGED <<config, env, entry_mode, exp, model, model_mode, on_device, optimizers, evaluator,
                   error, epoch, num_examples, batch_len, k, ops, train_log, eval_log,
                   last_update>>
    /\ UNCHANGED loaderVars

\* lines 116-118: next batch of the epoch, moved to the device and counted
BatchLoop ==
    /\ pc = "batch_loop"
    /\ IF idx < NumBatches(env.dataset_size, config.train_batch_size)
       THEN LET n == BatchLen(env.dataset_size, config.train_batch_size, idx)
            IN  /\ batch_len' = n
                /\ num_examples' = num_examples + n
                /\ epoch' = epoch
                /\ pc' = "ts_train"
       ELSE /\ batch_len' = batch_len
            /\ num_examples' = num_examples
            /\ epoch' = epoch + 1
            /\ pc' = "epoch_loop"
    /\ UNCHANGED <<config, env, entry_mode, exp, model, model_mode, on_device, optimizers, evaluator,
                   error, idx, k, ops, train_log, eval_log, last_update>>
    /\ UNCHANGED loaderVars

\* ------------------------------------------------------ training_step
\* line 132: model.train()
TsTrainMode_missing ==
    /\ pc = "ts_train"
    /\ model_mode' = model_mode
    /\ ops' = <<[op |-> "train", i |-> 0]>>
    /\ entry_mode' = model_mode
    /\ k' = 1
    /\ pc' = "ts_zero_grad"
    /\ UNCHANGED <<config, env, exp, model, on_device, optimizers, evaluator, error,
                   epoch, idx, num_examples, batch_len, train_log, eval_log, last_update>>
    /\ UNCHANGED loaderVars

TsTrainMode ==
    /\ pc = "ts_train"
    /\ model_mode' = "train"
    /\ ops' = <<[op |-> "train", i |-> 0]>>
    /\ entry_mode' = model_mode
    /\ k' = 1
    /\ pc' = "ts_zero_grad"
    /\ UNCHANGED <<config, env, exp, model, on_device, optimizers, evaluator, error,
                   epoch, idx, num_examples, batch_len, train_log, eval_log, last_update>>
    /\ UNCHANGED loaderVars

\* line 133: [opt.zero_grad() for opt in optimizers], one optimizer per step
TsZeroGrad ==
    /\ pc = "ts_zero_grad"
    /\ IF k <= Len(optimizers)
       THEN /\ ops' = Append(ops, [op |-> "zero_grad", i |-> k])
            /\ k' = k + 1
            /\ pc' = pc
       ELSE /\ ops' = ops
            /\ k' = k
            /\ pc' = "ts_forward"
    /\ UNCHANGED <<config, env, entry_mode, exp, model, model_mode, on_device, optimizers, evaluator,
                   error, epoch, idx, num_examples, batch_len, train_log, eval_log,
                   last_update>>
    /\ UNCHANGED loaderVars

\* lines 134-135: outputs = model(tokens)
TsForward ==
    /\ pc = "ts_forward"
    /\ ops' = Append(ops, [op |-> "forward", i |-> 0])
    /\ pc' = "ts_loss"
    /\ UNCHANGED <<config, env, entry_mode, exp, model, model_mode, on_device, optimizers, evaluator,
                   error, epoch, idx, num_examples, batch_len, k, train_log, eval_log,
                   last_update>>
    /\ UNCHANGED loaderVars

\* lines 136-141: accuracy of the last output step, flattened loss
TsLoss ==
    /\ pc = "ts_loss"
    /\ ops' = Append(ops, [op |-> "loss", i |-> 0])
    /\ pc' = "ts_backward"
    /\ UNCHANGED <<config, env, entry_mode, exp, model, model_mode, on_device, optimizers, evaluator,
                   error, epoch, idx, num_examples, batch_len, k, train_log, eval_log,
                   last_update>>
    /\ UNCHANGED loaderVars

\* line 142: loss.backward()
TsBackward ==
    /\ pc = "ts_backward"
    /\ ops' = Append(ops, [op |-> "backward", i |-> 0])
    /\ k' = 1
    /\ pc' = "ts_step"
    /\ UNCHANGED <<config, env, entry_mode, exp, model, model_mode, on_device, optimizers, evaluator,
                   error, epoch, idx, num_examples, batch_len, train_log, eval_log,
                   last_update>>
    /\ UNCHANGED loaderVars

TsOptStep_first_only ==
    /\ pc = "ts_step"
    /\ IF k <= 1
       THEN /\ ops' = Append(ops, [op |-> "step", i |-> k])
            /\ k' = k + 1
            /\ pc' = pc
            /\ last_update' = last_update
       ELSE /\ ops' = ops
            /\ k' = k
            /\ pc' = "log"
            /\ last_update' = <<epoch, idx>>
    /\ UNCHANGED <<config, env, entry_mode, exp, model, model_mode, on_device, optimizers, evaluator,
                   error, epoch, idx, num_examples, batch_len, train_log, eval_log>>
    /\ UNCHANGED loaderVars

\* lines 143-144: [opt.step() for opt in optimizers], one optimizer per step,
\* then return to normal_training
TsOptStep ==
    /\ pc = "ts_step"
    /\ IF k <= Len(optimizers)
       THEN /\ ops' = Append(ops, [op |-> "step", i |-> k])
            /\ k' = k + 1
            /\ pc' = pc
            /\ last_update' = last_update
       ELSE /\ ops' = ops
            /\ k' = k
            /\ pc' = "log"
            /\ last_update' = <<epoch, idx>>
    /\ UNCHANGED <<config, env, entry_mode, exp, model, model_mode, on_device, optimizers, evaluator,
                   error, epoch, idx, num_examples, batch_len, train_log, eval_log>>
    /\ UNCHANGED loaderVars

\* lines 120-122: the training metric report
LogTrain ==
    /\ pc = "log"
    /\ train_log' = IF ShouldLog(idx, config.log_every_n_batches)
                    THEN Append(train_log, [epoch |-> epoch, idx |-> idx,
                                            step |-> num_examples])
                    ELSE train_log
    /\ pc' = "eval"
    /\ UNCHANGED <<config, env, entry_mode, exp, model, model_mode, on_device, optimizers, evaluator,
                   error, epoch, idx, num_examples, batch_len, k, ops, eval_log,
                   last_update>>
    /\ UNCHANGED loaderVars

\* lines 124-128: evaluator.eval_model and its metric reports, then the next
\* batch.  Evaluation is a collaborator: the mode it leaves the model in is
\* not fixed by this file.
EvalModel ==
    /\ pc = "eval"
    /\ IF ShouldEval(idx, config.eval_every_n_batches)
       THEN /\ \E m \in {"train", "eval"} : model_mode' = m
            /\ eval_log' = Append(eval_log, [epoch |-> epoch, idx |-> idx,
                                             step |-> num_examples,
                                             after |-> last_update])
       ELSE /\ model_mode' = model_mode
            /\ eval_log' = eval_log
    /\ idx' = idx + 1
    /\ pc' = "batch_loop"
    /\ UNCHANGED <<config, env, entry_mode, exp, model, on_device, optimizers, evaluator, error,
                   epoch, num_examples, batch_len, k, ops, train_log, last_update>>
    /\ UNCHANGED loaderVars

\* ------------------------------------------- loss inputs of training_step
\* outputs has shape (T, B, classes); the score row of step t, example b is
\* identified by <<t, b>>
Outputs(nT, nB) == [t \in 0..(nT - 1) |-> [b \in 0..(nB - 1) |-> <<t, b>>]]

\* line 139: outputs.view(-1, classes) of a contiguous (T, B, classes) tensor
View(outputs, nT, nB) ==
    [r \in 1..(nT * nB) |-> outputs[(r - 1) \div nB][(r - 1) % nB]]

Repeat_interleave(ls, n) ==
    [j \in 1..(Len(ls) * n) |-> ls[((j - 1) \div n) + 1]]

\* line 140: labels.repeat(output_len) tiles the whole label vector
Repeat(ls, n) ==
    [j \in 1..(Len(ls) * n) |-> ls[((j - 1) % Len(ls)) + 1]]

StepInit ==
    /\ T \in 1..MaxT
    /\ B \in 1..MaxB
    /\ labels \in [1..B -> 0..(NClasses - 1)]
    /\ flat_outputs = <<>>
    /\ rep_labels = <<>>

\* lines 138-141: the two arguments of loss_func
LossInputs ==
    /\ flat_outputs = <<>>
    /\ flat_outputs' = View(Outputs(T, B), T, B)
    /\ rep_labels' = Repeat(labels, T)
    /\ UNCHANGED <<T, B, labels>>

\* ------------------------------------------------------ tune_training
\* the checkpoint directory: absent, unreadable, or holding saved trials
DiskStates == {[state |-> "absent", trials |-> {}], [state |-> "corrupt", trials |-> {}]}
              \cup {[state |-> "valid", trials |-> t] : t \in SUBSET Configs}

Loadable(d) == d.state = "valid"

TuneInit ==
    /\ tcfg \in [tuning_method : TuningMethods, resume : BOOLEAN,
                 n_samples : 1..MaxSamples]
    /\ disk \in DiskStates
    /\ disk0 = disk
    /\ tpc = "ray_init"
    /\ ray_inited = FALSE
    /\ bohb = FALSE
    /\ algo = NoAlgo
    /\ restore_status = "none"
    /\ run_launched = FALSE
    /\ running = {}
    /\ sampled = <<>>
    /\ completed = 0
    /\ saves = 0
    /\ terror = "none"

\* lines 160-161: ray.init(), stop_dict
RayInit ==
    /\ tpc = "ray_init"
    /\ ray_inited' = TRUE
    /\ tpc' = "dispatch"
    /\ UNCHANGED <<tcfg, bohb, algo, disk, disk0, restore_status, run_launched,
                   running, sampled, completed, saves, terror>>

\* lines 162-180: configuration space, HyperBandForBOHB, TuneBOHB
BuildBohb ==
    /\ tpc = "dispatch"
    /\ tcfg.tuning_method = "bohb"
    /\ bohb' = TRUE
    /\ tpc' = "run"
    /\ UNCHANGED <<tcfg, ray_inited, algo, disk, disk0, restore_status, run_launched,
                   running, sampled, completed, saves, terror>>

\* lines 187-206: HyperOptFIFO, the space, HyperOptSearch, the checkpoint path
BuildHyperOpt ==
    /\ tpc = "dispatch"
    /\ tcfg.tuning_method = "hyperopt"
    /\ algo' = [built |-> TRUE, trials |-> {}]
    /\ tpc' = "resume"
    /\ UNCHANGED <<tcfg, ray_inited, bohb, disk, disk0, restore_status, run_launched,
                   running, sampled, completed, saves, terror>>

\* line 207, resume flag not set
NoResume ==
    /\ tpc = "resume"
    /\ ~tcfg.resume
    /\ tpc' = "run"
    /\ UNCHANGED <<tcfg, ray_inited, bohb, algo, disk, disk0, restore_status,
                   run_launched, running, sampled, completed, saves, terror>>

\* lines 207-211: algo.restore succeeds
RestoreOk ==
    /\ tpc = "resume"
    /\ tcfg.resume
    /\ Loadable(disk)
    /\ algo' = [algo EXCEPT !.trials = disk.trials]
    /\ restore_status' = "ok"
    /\ tpc' = "run"
    /\ UNCHANGED <<tcfg, ray_inited, bohb, disk, disk0, run_launched, running,
                   sampled, completed, saves, terror>>

RestoreFail_propagates ==
    /\ tpc = "resume"
    /\ tcfg.resume
    /\ ~Loadable(disk)
    /\ restore_status' = "failed"
    /\ terror' = "RestoreError"
    /\ tpc' = "raised"
    /\ UNCHANGED <<tcfg, ray_inited, bohb, algo, disk, disk0, run_launched, running,
                   sampled, completed, saves>>

\* lines 207-214: algo.restore raises, the bare except swallows it
RestoreFail ==
    /\ tpc = "resume"
    /\ tcfg.resume
    /\ ~Loadable(disk)
    /\ restore_status' = "failed"
    /\ tpc' = "run"
    /\ UNCHANGED <<tcfg, ray_inited, bohb, algo, disk, disk0, run_launched, running,
                   sampled, completed, saves, terror>>

\* lines 222-226: the no_search branch goes straight to tune.run
DispatchNoSearch ==
    /\ tpc = "dispatch"
    /\ tcfg.tuning_method = "no_search"
    /\ tpc' = "run"
    /\ UNCHANGED <<tcfg, ray_inited, bohb, algo, disk, disk0, restore_status,
                   run_launched, running, sampled, completed, saves, terror>>

\* lines 228-229
RaiseUnsupported ==
    /\ tpc = "dispatch"
    /\ tcfg.tuning_method \notin Supported
    /\ terror' = "NotImplementedError"
    /\ tpc' = "raised"
    /\ UNCHANGED <<tcfg, ray_inited, bohb, algo, disk, disk0, restore_status,
                   run_launched, running, sampled, completed, saves>>

\* num_samples passed to tune.run: 1 for bohb (line 182), n_samples otherwise
NumSamples == IF tcfg.tuning_method = "bohb" THEN 1 ELSE tcfg.n_samples

\* lines 182, 216, 223: tune.run is called
TuneRun ==
    /\ tpc = "run"
    /\ run_launched' = TRUE
    /\ tpc' = "trials"
    /\ UNCHANGED <<tcfg, ray_inited, bohb, algo, disk, disk0, restore_status,
                   running, sampled, completed, saves, terror>>

\* tune.run samples a configuration and starts a trial (max_concurrent=1);
\* HyperOptSearch records the suggested trial in its trials
LaunchTrial ==
    /\ tpc = "trials"
    /\ running = {}
    /\ Len(sampled) < NumSamples
    /\ \E c \in Configs :
        /\ running' = {c}
        /\ sampled' = Append(sampled, c)
        /\ algo' = IF algo.built
                   THEN [algo EXCEPT !.trials = algo.trials \cup {c}]
                   ELSE algo
    /\ UNCHANGED <<tcfg, tpc, ray_inited, bohb, disk, disk0, restore_status,
                   run_launched, completed, saves, terror>>

\* a trial completes; with the hyperopt branch's scheduler HyperOptFIFO,
\* on_trial_complete (lines 189-193) saves the algorithm state
CompleteTrial ==
    /\ tpc = "trials"
    /\ running # {}
    /\ running' = {}
    /\ completed' = completed + 1
    /\ IF tcfg.tuning_method = "hyperopt"
       THEN /\ disk' = [state |-> "valid", trials |-> algo.trials]
            /\ saves' = saves + 1
       ELSE /\ disk' = disk
            /\ saves' = saves
    /\ UNCHANGED <<tcfg, tpc, ray_inited, bohb, algo, disk0, restore_status,
                   run_launched, sampled, terror>>

\* tune.run returns
RunReturns ==
    /\ tpc = "trials"
    /\ running = {}
    /\ Len(sampled) = NumSamples
    /\ tpc' = "done"
    /\ UNCHANGED <<tcfg, ray_inited, bohb, algo, disk, disk0, restore_status,
                   run_launched, running, sampled, completed, saves, terror>>

\* ------------------------------------------------------ specifications
LoaderIdle == LoaderInit

TrainIdle ==
    /\ config = None /\ env = None /\ pc = "idle" /\ exp = FALSE /\ model = NoModel
    /\ model_mode = None /\ on_device = FALSE /\ optimizers = <<>>
    /\ evaluator = FALSE /\ error = "none" /\ epoch = 0 /\ idx = 0
    /\ num_examples = 0 /\ batch_len = 0 /\ k = 0 /\ ops = <<>>
    /\ entry_mode = None /\ train_log = <<>> /\ eval_log = <<>> /\ last_update = <<>>

StepIdle ==
    /\ T = 0 /\ B = 0 /\ labels = <<>> /\ flat_outputs = <<>> /\ rep_labels = <<>>

TuneIdle ==
    /\ tcfg = None /\ tpc = "idle" /\ ray_inited = FALSE /\ bohb = FALSE
    /\ algo = NoAlgo /\ disk = [state |-> "absent", trials |-> {}] /\ disk0 = disk
    /\ restore_status = "none"
    /\ run_launched = FALSE /\ running = {} /\ sampled = <<>>
    /\ completed = 0 /\ saves = 0 /\ terror = "none"

\* the process runs normal_training(config)
Init == LoaderInit /\ TrainInit /\ StepIdle /\ TuneIdle

Next ==
    \/ SetupTraining /\ UNCHANGED <<stepVars, tuneVars>>
    \/ ModelToDevice /\ UNCHANGED <<stepVars, tuneVars>>
    \/ GetOptimizers /\ UNCHANGED <<stepVars, tuneVars>>
    \/ MakeEvaluator /\ UNCHANGED <<stepVars, tuneVars>>
    \/ EpochLoop /\ UNCHANGED <<stepVars, tuneVars>>
    \/ BatchLoop /\ UNCHANGED <<stepVars, tuneVars>>
    \/ TsTrainMode /\ UNCHANGED <<stepVars, tuneVars>>
    \/ TsZeroGrad /\ UNCHANGED <<stepVars, tuneVars>>
    \/ TsForward /\ UNCHANGED <<stepVars, tuneVars>>
    \/ TsLoss /\ UNCHANGED <<stepVars, tuneVars>>
    \/ TsBackward /\ UNCHANGED <<stepVars, tuneVars>>
    \/ TsOptStep /\ UNCHANGED <<stepVars, tuneVars>>
    \/ LogTrain /\ UNCHANGED <<stepVars, tuneVars>>
    \/ EvalModel /\ UNCHANGED <<stepVars, tuneVars>>

Spec == Init /\ [][Next]_vars

\* a process calls the data loader getters in any order
LoaderSpecInit == LoaderInit /\ TrainIdle /\ StepIdle /\ TuneIdle

LoaderNext ==
    \/ CallGetTrainDataloader /\ UNCHANGED <<trainVars, stepVars, tuneVars>>
    \/ CallGetEvalDataloader /\ UNCHANGED <<trainVars, stepVars, tuneVars>>

LoaderSpec == LoaderSpecInit /\ [][LoaderNext]_vars

\* training_step builds the loss inputs for any output shape and labels
StepSpecInit == LoaderIdle /\ TrainIdle /\ StepInit /\ TuneIdle

StepNext == LossInputs /\ UNCHANGED <<loaderVars, trainVars, tuneVars>>

StepSpec == StepSpecInit /\ [][StepNext]_vars

\* the process runs tune_training(config)
TuneSpecInit == LoaderIdle /\ TrainIdle /\ StepIdle /\ TuneInit

TuneNext ==
    \/ RayInit /\ UNCHANGED <<loaderVars, trainVars, stepVars>>
    \/ BuildBohb /\ UNCHANGED <<loaderVars, trainVars, stepVars>>
    \/ BuildHyperOpt /\ UNCHANGED <<loaderVars, trainVars, stepVars>>
    \/ NoResume /\ UNCHANGED <<loaderVars, trainVars, stepVars>>
    \/ RestoreOk /\ UNCHANGED <<loaderVars, trainVars, stepVars>>
    \/ RestoreFail /\ UNCHANGED <<loaderVars, trainVars, stepVars>>
    \/ DispatchNoSearch /\ UNCHANGED <<loaderVars, trainVars, stepVars>>
    \/ RaiseUnsupported /\ UNCHANGED <<loaderVars, trainVars, stepVars>>
    \/ TuneRun /\ UNCHANGED <<loaderVars, trainVars, stepVars>>
    \/ LaunchTrial /\ UNCHANGED <<loaderVars, trainVars, stepVars>>
    \/ CompleteTrial /\ UNCHANGED <<loaderVars, trainVars, stepVars>>
    \/ RunReturns /\ UNCHANGED <<loaderVars, trainVars, stepVars>>

TuneSpec == TuneSpecInit /\ [][TuneNext]_vars

\* ------------------------------------------------------ properties
Count(S) == Cardinality(S)

\* --- normal_training reports
ReportsFor(e, i) ==
    {j \in 1..Len(train_log) : train_log[j].epoch = e /\ train_log[j].idx = i}

\* the log decision of batch i of epoch e lies behind the loop's position
PastLog(e, i) ==
    \/ e < epoch
    \/ e = epoch /\ pc # "epoch_loop" /\ (i < idx \/ (i = idx /\ pc = "eval"))

\* examples of all batches up to batch i of epoch e, that batch included
CumulativeExamples(e, i) ==
    e * env.dataset_size + Min((i + 1) * config.train_batch_size, env.dataset_size)

Scenario ==
    /\ config.training_epochs = 1
    /\ config.train_batch_size = 8
    /\ env.dataset_size = 16
    /\ config.log_every_n_batches = 1

\* C1: a train_loss report exists for batch idx of an epoch exactly when
\* idx % log_every_n_batches = 0 (once the loop has passed that batch), its
\* step is the cumulative number of examples of every batch processed so far
\* in the whole run, and the run of 1 epoch, batch size 8, 16 examples and
\* cadence 1 ends with exactly two reports, at steps 8 and 16.
C1_TrainReports ==
    /\ \A e \in 0..(config.training_epochs - 1) :
         \A i \in 0..(NumBatches(env.dataset_size, config.train_batch_size) - 1) :
            Count(ReportsFor(e, i)) =
                IF PastLog(e, i) /\ i % config.log_every_n_batches = 0 THEN 1 ELSE 0
    /\ \A j \in 1..Len(train_log) :
         /\ train_log[j].epoch \in 0..(config.training_epochs - 1)
         /\ train_log[j].idx \in 0..(NumBatches(env.dataset_size, config.train_batch_size) - 1)
         /\ train_log[j].step = CumulativeExamples(train_log[j].epoch, train_log[j].idx)
    /\ (Scenario /\ pc = "done") =>
         [j \in 1..Len(train_log) |-> train_log[j].step] = <<8, 16>>

C1_Witness ==
    /\ Scenario
    /\ pc = "done"
    /\ Len(train_log) = 2

\* --- failing fast
\* C2: when tune_training raises for an unsupported tuning_method, nothing
\* has been allocated: ray is not initialised, no search algorithm or
\* scheduler is built, no trial was launched, the checkpoint directory is
\* untouched.
C2_UnsupportedMethodNoSideEffect ==
    (tpc = "raised" /\ terror = "NotImplementedError") =>
        /\ ~ray_inited
        /\ ~bohb
        /\ ~algo.built
        /\ ~run_launched
        /\ sampled = <<>>
        /\ disk = disk0

\* C3: when normal_training fails on an optimizer name other than 'adam',
\* no metric sink, data loader, dataset, model or device placement exists
\* and no training step has run.
C3_UnsupportedOptimizerNoResource ==
    (pc = "raised" /\ error = "NotImplementedError") =>
        /\ ~exp
        /\ loaders = <<>>
        /\ created = <<>>
        /\ model = NoModel
        /\ ~on_device
        /\ num_examples = 0

\* --- optimizer group
GetOptimizersReturnedOrRaised == pc \notin {"setup", "to_device", "get_optimizers"}

NonEmptySubsets(m) ==
    (IF m.dense # {} THEN 1 ELSE 0) + (IF m.sparse # {} THEN 1 ELSE 0)

OneOptimizerPerSubset(m, opts) ==
    /\ Len(opts) = NonEmptySubsets(m)
    /\ \A p \in m.dense \cup m.sparse :
         Count({j \in 1..Len(opts) : p \in opts[j].params}) = 1
    /\ UNION {opts[j].params : j \in 1..Len(opts)} = m.dense \cup m.sparse
    /\ \A j \in 1..Len(opts) : opts[j].params # {}
    /\ m.sparse = {} => (Len(opts) = 1 /\ opts[1] = Adam(m.dense))

\* C4 as stated: for every model, with optimizer name 'adam', get_optimizers
\* returns one optimizer per non-empty parameter subset, the optimizers'
\* parameters partition the model's parameters, and an empty sparse subset
\* gives the single dense optimizer.
C4_EveryModel ==
    (GetOptimizersReturnedOrRaised /\ config.optimizer_name = "adam") =>
        /\ error = "none"
        /\ OneOptimizerPerSubset(model, optimizers)

\* C4 amended: the same, for every model whose dense subset is non-empty.
C4_DenseNonEmpty ==
    (GetOptimizersReturnedOrRaised /\ config.optimizer_name = "adam"
        /\ model.dense # {}) =>
        /\ error = "none"
        /\ OneOptimizerPerSubset(model, optimizers)

C4_Witness ==
    /\ pc = "evaluator"
    /\ config.optimizer_name = "adam"
    /\ model.dense # {}
    /\ model.sparse # {}
    /\ Len(optimizers) = 2

\* --- resuming a search
\* C5: when the resume flag is set and algo.restore fails, no error leaves
\* tune_training, the algorithm keeps its cold-start state until the first
\* trial is sampled, and control goes on to tune.run, which is launched.
C5_RestoreFailureRecovered ==
    restore_status = "failed" =>
        /\ terror = "none"
        /\ tpc \in {"run", "trials", "done"}
        /\ tpc \in {"trials", "done"} => run_launched
        /\ sampled = <<>> => algo = [built |-> TRUE, trials |-> {}]

C5_Witness ==
    /\ tcfg.resume
    /\ restore_status = "failed"
    /\ run_launched
    /\ tpc = "done"

\* C6: in a search run (bohb or hyperopt) the algorithm state is saved after
\* each completed trial, with the resume flag set an existing checkpoint is
\* loaded before any trial is sampled, and no configuration of the
\* checkpoint's history is sampled again.
C6_PersistAndResume ==
    (tpc # "idle" /\ tcfg.tuning_method \in {"bohb", "hyperopt"}) =>
        /\ saves = completed
        /\ (tcfg.resume /\ Loadable(disk0) /\ sampled # <<>>) =>
             /\ restore_status = "ok"
             /\ \A j \in 1..Len(sampled) : sampled[j] \notin disk0.trials

\* --- dataset caches
CreatedFor(split) == {j \in 1..Len(created) : created[j].split = split}
LoadersFor(split) == {j \in 1..Len(loaders) : loaders[j].split = split}
Cache(split) == IF split = "train" THEN train_dataset ELSE eval_dataset

\* C7: after any sequence of getter calls, a split that was asked for has
\* exactly one dataset instance, created by its first call, and every loader
\* returned for the split wraps that instance; a split never asked for has
\* none.
C7_OneDatasetPerSplit ==
    \A split \in {"train", "eval"} :
        /\ Count(CreatedFor(split)) = IF LoadersFor(split) = {} THEN 0 ELSE 1
        /\ LoadersFor(split) = {} => Cache(split) = NoDataset
        /\ \A c \in CreatedFor(split) :
             /\ Cache(split) = created[c].ds
             /\ \A j \in LoadersFor(split) : loaders[j].dataset = created[c].ds
        /\ \A c, d \in 1..Len(created) : c # d => created[c].ds.id # created[d].ds.id

C7_Witness ==
    /\ Count(LoadersFor("train")) >= 2
    /\ Count(LoadersFor("eval")) >= 2
    /\ Len(created) = 2

\* --- training_step
At(op, i) == {j \in 1..Len(ops) : ops[j].op = op /\ ops[j].i = i}
Group == 1..Len(optimizers)

\* C8: within one training_step every optimizer is zeroed before the forward
\* pass, backward runs once and after the forward pass, every optimizer
\* steps once, after backward, and when the step returns nothing was skipped.
C8_StepOrder ==
    /\ \A f \in At("forward", 0) : \A o \in Group : \E z \in At("zero_grad", o) : z < f
    /\ Count(At("forward", 0)) <= 1
    /\ Count(At("backward", 0)) <= 1
    /\ \A b \in At("backward", 0) : \E f \in At("forward", 0) : f < b
    /\ \A j \in 1..Len(ops) : ops[j].op \in {"zero_grad", "step"} => ops[j].i \in Group
    /\ \A o \in Group :
         /\ Count(At("step", o)) <= 1
         /\ Count(At("zero_grad", o)) <= 1
         /\ \A st \in At("step", o) : \E b \in At("backward", 0) : b < st
    /\ pc = "log" =>
         /\ Count(At("forward", 0)) = 1
         /\ Count(At("backward", 0)) = 1
         /\ \A o \in Group : Count(At("step", o)) = 1 /\ Count(At("zero_grad", o)) = 1

C8_Witness ==
    /\ pc = "log"
    /\ Len(optimizers) = 2
    /\ Count(At("step", 2)) = 1

\* C9: the loss inputs have T*B rows and T*B labels, and the row of output
\* step t and example b sits at exactly one position, where the label is
\* the label of example b.
C9_RowsPairedWithOwnLabel ==
    Len(flat_outputs) > 0 =>
        /\ Len(flat_outputs) = T * B
        /\ Len(rep_labels) = T * B
        /\ \A t \in 0..(T - 1) : \A b \in 0..(B - 1) :
             \E r \in 1..(T * B) :
                /\ flat_outputs[r] = <<t, b>>
                /\ \A q \in 1..(T * B) : flat_outputs[q] = <<t, b>> => q = r
                /\ rep_labels[r] = labels[b + 1]

C9_Witness ==
    /\ Len(flat_outputs) > 0
    /\ T >= 2
    /\ B >= 2
    /\ labels[1] # labels[2]

\* C10: the forward pass, the backward pass and the updates of every
\* training step run in training mode whatever the evaluator left behind,
\* and the evaluation recorded for batch idx of an epoch ran after that
\* batch's update.
C10_TrainModeInStep ==
    /\ pc \in {"ts_zero_grad", "ts_forward", "ts_loss", "ts_backward", "ts_step"} =>
         model_mode = "train"
    /\ \A j \in 1..Len(eval_log) :
         eval_log[j].after = <<eval_log[j].epoch, eval_log[j].idx>>

C10_Witness ==
    /\ pc = "ts_step"
    /\ entry_mode = "eval"
    /\ model_mode = "train"
    /\ eval_log # <<>>

====
